---- MODULE Spec2Model ----
(***************************************************************************)
(* FocusForge: the statistics store (utils/storage: getStats, saveStats)   *)
(* and the part of the App component that owns the statistics record.      *)
(*                                                                         *)
(* Time is counted in whole hours of local time since local midnight of    *)
(* day 0.  An instant stands for both a Date and its ISO string: the       *)
(* round trip new Date(d.toISOString()) is exact, so lastUpdate and        *)
(* weekStartDate hold instants.  A date key "YYYY-MM-DD" is the number of  *)
(* the local day.                                                          *)
(*                                                                         *)
(* localStorage[STATS_KEY] is `storage`: <<>> when the key is absent,      *)
(* <<r>> when it holds the JSON text of the record r, <<CorruptText>>      *)
(* when it holds a text that is not JSON; localStorage[SETTINGS_KEY] is    *)
(* `settingsStore`, in the same way.  `writable` tells whether setItem     *)
(* succeeds; `err` is the exception that ended the last mount, render or   *)
(* handler ("none" when there was none).                                   *)
(* The React state of the mounted App is `stats` (<<r>>), `mode`,          *)
(* `isActive`, `timeLeft` (seconds), `isFocusMode` and the settings        *)
(* `focusDuration`, `breakDuration`, `darkMode`, `ambientSound`,           *)
(* `ambientSoundType` (ambientVolume only sets the gain of the output and  *)
(* is left out).  `intervals` is the number of armed                       *)
(* intervals and `timerRef` tells whether timerRef.current names one.      *)
(* The specifications of the statistics store let a countdown run out in   *)
(* one step (TickComplete); SpecTimer follows it second by second.         *)
(* `loaded` records the getStats call of the mount, <<[from, at, ret]>>,   *)
(* in the state right after AppStart, and `resetFrom` the value of         *)
(* isActive when resetTimer acted, in the state right after it; both are   *)
(* <<>> in every other state.                                              *)
(* `doneToday` and `doneMinutes` count the focus sessions completed since  *)
(* the last local midnight and the minutes they recorded; `completed`      *)
(* counts all the focus sessions completed so far.                         *)
(*                                                                         *)
(* utils/audio keeps its state in module variables.  The noise sources it  *)
(* creates are numbered 1, 2, ... in the order of creation (`created` is   *)
(* the number made so far); `audioCtx` tells whether the AudioContext and  *)
(* its two gain nodes exist, `activeSource` is the source the module       *)
(* variable names (0 for null), `playing` is the set of sources that were  *)
(* started and not stopped, and `timeouts` is the queue of the delayed     *)
(* callbacks of stopAmbientSound: all have the same delay, so they run in  *)
(* the order in which they were scheduled.  `lastCall` is the exported     *)
(* function of the pair startAmbientSound, stopAmbientSound that was       *)
(* called last ("none" before the first call).  The buffers, the filter    *)
(* and the gain ramps shape the sound of a source and not which sources    *)
(* play, and are left out.                                                 *)
(***************************************************************************)
EXTENDS Integers, Sequences, FiniteSets

VARIABLES now, storage, settingsStore, writable, err,
          open, stats, mode, isActive, timeLeft, isFocusMode,
          focusDuration, breakDuration, darkMode, ambientSound,
          ambientSoundType, audioCtx, activeSource, playing, timeouts,
          created, lastCall,
          intervals, timerRef, loaded, resetFrom,
          doneToday, doneMinutes, completed

vars == <<now, storage, settingsStore, writable, err,
          open, stats, mode, isActive, timeLeft, isFocusMode,
          focusDuration, breakDuration, darkMode, ambientSound,
          ambientSoundType, audioCtx, activeSource, playing, timeouts,
          created, lastCall,
          intervals, timerRef, loaded, resetFrom,
          doneToday, doneMinutes, completed>>

\* the module state of utils/audio
audioVars == <<audioCtx, activeSource, playing, timeouts, created, lastCall>>

\* everything but the module state of utils/audio
appVars == <<now, storage, settingsStore, writable, err,
             open, stats, mode, isActive, timeLeft, isFocusMode,
             focusDuration, breakDuration, darkMode, ambientSound,
             ambientSoundType,
             intervals, timerRef, loaded, resetFrom,
             doneToday, doneMinutes, completed>>

(* ------------------------------ bounds --------------------------------- *)

\* Last local day the clock reaches.
MaxDay == 2

\* Focus sessions completed in a run of the model.
MaxSessions == 2

\* The daily goal is not incremented past this value.
MaxGoal == 4

\* Most noise sources utils/audio creates in a run.
MaxSources == 3

\* Most delayed callbacks of stopAmbientSound that wait at a time.
MaxTimeouts == 3

\* Hours of the day at which the clock is observed: 10:00 -> 09:00 of the
\* next day is 23 h, 09:00 -> 09:00 is 24 h, 09:00 -> 10:00 is 25 h.
ClockHours == {9, 10}

\* Focus durations (minutes) the settings dialog is used to choose.
FocusChoices == {25, 50}

\* Durations in minutes the settings dialog is given in the timer runs.
ShortFocus == {1, 25}

ShortBreak == {1, 5}

\* AmbientSoundType: the three buttons of the settings dialog
SoundTypes == {"rain", "cafe", "white"}

(* --------------------------- program constants ------------------------- *)

\* 1000 * 60 * 60 * 24 ms, in hours.
MsPerDay == 24

sessionsToday == 3

mockCounts == <<5, 2, 6, 3, 4, 1, 7, 3, 2, 5>>

DefaultFocusDuration == 25

\* DEFAULT_SETTINGS.breakDuration
DefaultBreakDuration == 5

\* seconds in a minute, the factor of timeLeft
SecPerMin == 60

MockStreak == 5

MockLongest == 12

WeekStartBack == 4

WeekDays == 7

Instants == {MsPerDay * d + h : d \in 0..MaxDay, h \in ClockHours}

(* ------------------------------ storage.ts ----------------------------- *)

getDateKey(t) == t \div MsPerDay

Max(a, b) == IF a >= b THEN a ELSE b

Abs(a) == IF a >= 0 THEN a ELSE 0 - a

\* Math.ceil(a / b) for a >= 0, b > 0
CeilDiv(a, b) == (a + b - 1) \div b

RECURSIVE SumFirst(_, _)
SumFirst(s, n) == IF n = 0 THEN 0 ELSE s[n] + SumFirst(s, n - 1)

\* history[k] = v that keeps a value already stored under k
HistorySet_KeepFirst(h, k, v) ==
  [x \in DOMAIN h \cup {k} |-> IF x \in DOMAIN h THEN h[x] ELSE v]

\* history[k] = v
HistorySet(h, k, v) == [x \in DOMAIN h \cup {k} |-> IF x = k THEN v ELSE h[x]]

\* generateMockHistory with the loop running over i = 0 .. 9
generateMockHistory_FromToday(t) ==
  [k \in {getDateKey(t) - i : i \in 0..9} |-> mockCounts[getDateKey(t) - k + 1]]

\* keys today-1 .. today-10, today-i holding mockCounts[i]
generateMockHistory(t) ==
  [k \in {getDateKey(t) - i : i \in 1..10} |-> mockCounts[getDateKey(t) - k]]

\* Object.values(mockHistory).slice(0, 6).reduce(+): insertion order is i = 1..6
sessionsPast6Days == SumFirst(mockCounts, 6)

totalWeekSessions == sessionsToday + sessionsPast6Days

\* The module-level constant, evaluated when the module is loaded at instant t.
DEFAULT_STATS(t) ==
  [ todaySessions     |-> sessionsToday,
    weekSessions      |-> totalWeekSessions,
    dailyGoal         |-> 4,
    lastUpdate        |-> t,
    weekStartDate     |-> t - WeekStartBack * MsPerDay,
    totalMinutesToday |-> sessionsToday * 25,
    totalMinutesWeek  |-> totalWeekSessions * 25,
    longestStreak     |-> MockLongest,
    currentStreak     |-> MockStreak,
    history           |-> generateMockHistory(t) ]

\* localStorage.setItem(STATS_KEY, JSON.stringify(stats))
saveStats(s) == <<s>>

\* A stored text that is not JSON.
CorruptText == [corrupt |-> TRUE]

\* JSON.parse(text) returns a value instead of throwing a SyntaxError
Parsable(text) == "corrupt" \notin DOMAIN text

\* getStats works on a pair [stats, storage]: the local `stats` object and
\* the stored text.

\* lines 61-82: read the key, fall back to the defaults when it is absent
\* or JSON.parse throws, migrate
LoadStored(st, t) ==
  IF st = <<>> \/ ~Parsable(st[1])
    THEN [stats |-> DEFAULT_STATS(t), storage |-> saveStats(DEFAULT_STATS(t))]
    ELSE LET p == st[1] IN
         IF DOMAIN p.history = {}
           THEN LET m == [p EXCEPT !.history = generateMockHistory(t),
                                   !.currentStreak = MockStreak,
                                   !.longestStreak = Max(p.longestStreak, MockLongest)]
                IN [stats |-> m, storage |-> saveStats(m)]
           ELSE [stats |-> p, storage |-> st]

\* StreakAfter without the test todaySessions > 0
StreakAfter_AlwaysUp(s, t) ==
  LET diffTime == Abs(t - s.lastUpdate)
      diffDays == CeilDiv(diffTime, MsPerDay)
  IN IF diffDays <= 1 THEN s.currentStreak + 1 ELSE 0

\* StreakAfter with the test diffDays <= 2
StreakAfter_TwoDays(s, t) ==
  LET diffTime == Abs(t - s.lastUpdate)
      diffDays == CeilDiv(diffTime, MsPerDay)
  IN IF diffDays <= 2
       THEN IF s.todaySessions > 0 THEN s.currentStreak + 1 ELSE s.currentStreak
       ELSE 0

\* lines 94-103: the streak after a day change
StreakAfter(s, t) ==
  LET diffTime == Abs(t - s.lastUpdate)
      diffDays == CeilDiv(diffTime, MsPerDay)
  IN IF diffDays <= 1
       THEN IF s.todaySessions > 0 THEN s.currentStreak + 1 ELSE s.currentStreak
       ELSE 0

\* LongestAfter without the update
LongestAfter_Keep(s, cur) == s.longestStreak

\* lines 105-107
LongestAfter(s, cur) == IF cur > s.longestStreak THEN cur ELSE s.longestStreak

\* DailyReset without the test todayStr !== lastUpdateStr
DailyReset_EveryLoad(c, t) ==
  LET s == c.stats
      lastUpdateStr == getDateKey(s.lastUpdate)
      cur == StreakAfter(s, t)
      r == [s EXCEPT !.history = HistorySet(s.history, lastUpdateStr, s.todaySessions),
                     !.currentStreak = cur,
                     !.longestStreak = LongestAfter(s, cur),
                     !.todaySessions = 0,
                     !.totalMinutesToday = 0,
                     !.lastUpdate = t]
  IN [stats |-> r, storage |-> saveStats(r)]

\* DailyReset without stats.lastUpdate = now.toISOString()
DailyReset_NoStamp(c, t) ==
  LET s == c.stats
      todayStr == getDateKey(t)
      lastUpdateStr == getDateKey(s.lastUpdate)
  IN IF todayStr # lastUpdateStr
       THEN LET cur == StreakAfter(s, t)
                r == [s EXCEPT !.history = HistorySet(s.history, lastUpdateStr, s.todaySessions),
                               !.currentStreak = cur,
                               !.longestStreak = LongestAfter(s, cur),
                               !.todaySessions = 0,
                               !.totalMinutesToday = 0]
            IN [stats |-> r, storage |-> saveStats(r)]
       ELSE c

\* lines 89-113: daily reset and streak logic
DailyReset(c, t) ==
  LET s == c.stats
      todayStr == getDateKey(t)
      lastUpdateStr == getDateKey(s.lastUpdate)
  IN IF todayStr # lastUpdateStr
       THEN LET cur == StreakAfter(s, t)
                r == [s EXCEPT !.history = HistorySet(s.history, lastUpdateStr, s.todaySessions),
                               !.currentStreak = cur,
                               !.longestStreak = LongestAfter(s, cur),
                               !.todaySessions = 0,
                               !.totalMinutesToday = 0,
                               !.lastUpdate = t]
            IN [stats |-> r, storage |-> saveStats(r)]
       ELSE c

\* lines 115-123 with the test diffWeekDays > 7
WeeklyReset_After7(c, t) ==
  LET s == c.stats
      diffWeekDays == (t - s.weekStartDate) \div MsPerDay
  IN IF diffWeekDays > WeekDays
       THEN LET r == [s EXCEPT !.weekSessions = 0,
                               !.totalMinutesWeek = 0,
                               !.weekStartDate = t]
            IN [stats |-> r, storage |-> saveStats(r)]
       ELSE c

\* lines 115-123: weekly reset
WeeklyReset(c, t) ==
  LET s == c.stats
      diffWeekDays == (t - s.weekStartDate) \div MsPerDay
  IN IF diffWeekDays >= WeekDays
       THEN LET r == [s EXCEPT !.weekSessions = 0,
                               !.totalMinutesWeek = 0,
                               !.weekStartDate = t]
            IN [stats |-> r, storage |-> saveStats(r)]
       ELSE c

\* getStats() called at instant t with localStorage holding st
getStats(st, t) == WeeklyReset(DailyReset(LoadStored(st, t), t), t)

\* getStats() reaches a saveStats call.  Each of its calls writes a text
\* that differs from the stored one: the defaults over an absent or
\* unparsable text, a history over an empty one, a lastUpdate of another
\* day, a weekStartDate seven days later.
getStatsSaves(st, t) == getStats(st, t).storage # st

DEFAULT_SETTINGS ==
  [ darkMode      |-> FALSE,
    ambientSound  |-> FALSE,
    ambientSoundType |-> "rain",
    focusDuration |-> DefaultFocusDuration,
    breakDuration |-> DefaultBreakDuration ]

\* getSettings(): { ...DEFAULT_SETTINGS, ...JSON.parse(stored) }, with no
\* try around JSON.parse
getSettings(store) ==
  IF store = <<>>
    THEN DEFAULT_SETTINGS
    ELSE [k \in DOMAIN DEFAULT_SETTINGS |->
            IF k \in DOMAIN store[1] THEN store[1][k] ELSE DEFAULT_SETTINGS[k]]

\* getSettings() ends with the SyntaxError of JSON.parse
getSettingsThrows(store) == store # <<>> /\ ~Parsable(store[1])

\* localStorage.setItem(SETTINGS_KEY, JSON.stringify(settings))
saveSettings(cfg) == <<cfg>>

(* -------------------------------- App ---------------------------------- *)

\* the settings held in the React state `settings`
Settings ==
  [ darkMode      |-> darkMode,
    ambientSound  |-> ambientSound,
    ambientSoundType |-> ambientSoundType,
    focusDuration |-> focusDuration,
    breakDuration |-> breakDuration ]

\* the interval handles: how many intervals are armed, and whether
\* timerRef.current names an armed one
Timer == [intervals |-> intervals, timerRef |-> timerRef]

\* A render of App evaluates useState(getStats()): the call runs, its
\* result is dropped after the first render, its writes to localStorage stay.
Render(st, t) == getStats(st, t).storage

\* A handler fails with the exception of setItem when localStorage is not
\* writable and it calls saveStats itself (own) or the getStats() of the
\* render it causes does.
StorageFails(own) == ~writable /\ (own \/ getStatsSaves(storage, now))

\* completeSession, focus branch, adding two sessions
RecordSession_Twice(s, minutes, t) ==
  [s EXCEPT !.todaySessions = s.todaySessions + 2,
            !.weekSessions = s.weekSessions + 2,
            !.totalMinutesToday = s.totalMinutesToday + minutes,
            !.totalMinutesWeek = s.totalMinutesWeek + minutes,
            !.lastUpdate = t]

\* completeSession, focus branch: the record built from the state `stats`
RecordSession(s, minutes, t) ==
  [s EXCEPT !.todaySessions = s.todaySessions + 1,
            !.weekSessions = s.weekSessions + 1,
            !.totalMinutesToday = s.totalMinutesToday + minutes,
            !.totalMinutesWeek = s.totalMinutesWeek + minutes,
            !.lastUpdate = t]

\* the "-" button without Math.max
GoalDown_NoFloor(s) == [s EXCEPT !.dailyGoal = s.dailyGoal - 1]

GoalDown(s) == [s EXCEPT !.dailyGoal = Max(1, s.dailyGoal - 1)]

GoalUp(s) == [s EXCEPT !.dailyGoal = s.dailyGoal + 1]

\* (mode === 'focus' ? settings.focusDuration : settings.breakDuration) * 60
DurationOf(m, cfg) ==
  (IF m = "focus" THEN cfg.focusDuration ELSE cfg.breakDuration) * SecPerMin

\* the effect of lines 429-433 left out
SyncTimeLeft_Off(tl, active, m, cfg, changed) == tl

\* the effect of lines 429-433 with the guard !isActive dropped
SyncTimeLeft_Always(tl, active, m, cfg, changed) ==
  IF changed THEN DurationOf(m, cfg) ELSE tl

\* the effect of lines 429-433, run after a render in which one of its
\* dependencies (focusDuration, breakDuration, mode) changed
SyncTimeLeft(tl, active, m, cfg, changed) ==
  IF changed /\ ~active THEN DurationOf(m, cfg) ELSE tl

\* clearInterval(timerRef.current): nothing happens for null or for an
\* interval already cleared
clearInterval(tm) ==
  IF tm.timerRef
    THEN [intervals |-> tm.intervals - 1, timerRef |-> FALSE]
    ELSE tm

\* timerRef.current = window.setInterval(...)
setInterval(tm) == [intervals |-> tm.intervals + 1, timerRef |-> TRUE]

\* the effect of lines 461-477 without the cleanup of its previous run
IntervalEffect_NoCleanup(tm, active, changed) ==
  IF changed
    THEN IF active THEN setInterval(tm) ELSE clearInterval(tm)
    ELSE tm

\* the effect of lines 461-477 arming an interval whatever isActive is
IntervalEffect_AlwaysArm(tm, active, changed) ==
  IF changed THEN setInterval(clearInterval(tm)) ELSE tm

\* the effect of lines 461-477, run after a render in which isActive or
\* completeSession (mode, stats, settings) changed: the cleanup of the
\* previous run, then the body
IntervalEffect(tm, active, changed) ==
  IF changed
    THEN LET c == clearInterval(tm)
         IN IF active THEN setInterval(c) ELSE clearInterval(c)
    ELSE tm

(* ------------------------------ utils/audio ---------------------------- *)

\* the module variables audioCtx, activeSource (masterGain and fadeGain
\* exist exactly when audioCtx does) and the pending timeouts
Audio ==
  [ audioCtx     |-> audioCtx,
    activeSource |-> activeSource,
    playing      |-> playing,
    timeouts     |-> timeouts,
    created      |-> created,
    lastCall     |-> lastCall ]

\* the module right after it is loaded
NoAudio ==
  [ audioCtx     |-> FALSE,
    activeSource |-> 0,
    playing      |-> {},
    timeouts     |-> <<>>,
    created      |-> 0,
    lastCall     |-> "none" ]

InitAudio ==
  /\ audioCtx = NoAudio.audioCtx
  /\ activeSource = NoAudio.activeSource
  /\ playing = NoAudio.playing
  /\ timeouts = NoAudio.timeouts
  /\ created = NoAudio.created
  /\ lastCall = NoAudio.lastCall

SetAudio(a) ==
  /\ audioCtx' = a.audioCtx
  /\ activeSource' = a.activeSource
  /\ playing' = a.playing
  /\ timeouts' = a.timeouts
  /\ created' = a.created
  /\ lastCall' = a.lastCall

\* the runs are cut where a call would pass the bounds
WithinAudioBounds(a) ==
  /\ a.created <= MaxSources
  /\ Len(a.timeouts) <= MaxTimeouts

\* initAudio(): creates the context and the gain nodes once
initAudio(a) == [a EXCEPT !.audioCtx = TRUE]

\* stopAmbientSound(): returns when there is no active source or no
\* context; else fades out and schedules the callback that stops `source`,
\* the source that is active now.  activeSource is not cleared here.
\* `created` in the entry is the number of sources made when the callback
\* was scheduled.
stopAmbientSound(a) ==
  IF a.activeSource = 0 \/ ~a.audioCtx
    THEN [a EXCEPT !.lastCall = "stop"]
    ELSE [a EXCEPT !.timeouts = Append(@, [source  |-> a.activeSource,
                                           created |-> a.created]),
                   !.lastCall = "stop"]

\* startAmbientSound(type, volume): initAudio, stopAmbientSound when a
\* source is active, then a new looping source becomes the active one and
\* is started
startAmbientSound(a) ==
  LET i == initAudio(a)
      s == IF i.activeSource # 0 THEN stopAmbientSound(i) ELSE i
      n == s.created + 1
  IN [s EXCEPT !.created = n,
               !.activeSource = n,
               !.playing = @ \cup {n},
               !.lastCall = "start"]

\* the callback that clears activeSource whichever source is active
stopTimeout_AlwaysClear(a) ==
  LET source == Head(a.timeouts).source
  IN [a EXCEPT !.timeouts = Tail(@),
               !.playing = @ \ {source},
               !.activeSource = 0]

\* the callback of the setTimeout in stopAmbientSound: source.stop() (an
\* exception of stop() is swallowed), then
\* if (activeSource === source) activeSource = null
stopTimeout(a) ==
  LET source == Head(a.timeouts).source
  IN [a EXCEPT !.timeouts = Tail(@),
               !.playing = @ \ {source},
               !.activeSource = IF @ = source THEN 0 ELSE @]

\* the ambient effect of App, which runs after the mount and after a
\* render in which ambientSound or ambientSoundType changed
AmbientEffect(a, cfg, changed) ==
  IF ~changed THEN a
  ELSE IF cfg.ambientSound THEN startAmbientSound(a)
  ELSE stopAmbientSound(a)

\* The app is not mounted.
InitApp ==
  /\ open = FALSE
  /\ stats = <<>>
  /\ mode = "focus"
  /\ isActive = FALSE
  /\ focusDuration = DEFAULT_SETTINGS.focusDuration
  /\ breakDuration = DEFAULT_SETTINGS.breakDuration
  /\ darkMode = DEFAULT_SETTINGS.darkMode
  /\ ambientSound = DEFAULT_SETTINGS.ambientSound
  /\ ambientSoundType = DEFAULT_SETTINGS.ambientSoundType
  /\ timeLeft = DEFAULT_SETTINGS.focusDuration * SecPerMin
  /\ isFocusMode = FALSE
  /\ intervals = 0
  /\ timerRef = FALSE
  /\ loaded = <<>>
  /\ resetFrom = <<>>
  /\ InitAudio

\* No focus session has been completed in this run.
InitCounts ==
  /\ doneToday = 0
  /\ doneMinutes = 0
  /\ completed = 0

\* First run: nothing is stored, localStorage is writable.
Init ==
  /\ now \in ClockHours
  /\ storage = <<>>
  /\ settingsStore = <<>>
  /\ writable = TRUE
  /\ err = "none"
  /\ InitApp
  /\ InitCounts

\* An exception e leaves a handler, an updater or the render of App: React
\* unmounts the tree.  Nothing was written.
Unmount(e) ==
  /\ err' = e
  /\ open' = FALSE
  /\ stats' = <<>>
  /\ mode' = "focus"
  /\ isActive' = FALSE
  /\ focusDuration' = DEFAULT_SETTINGS.focusDuration
  /\ breakDuration' = DEFAULT_SETTINGS.breakDuration
  /\ darkMode' = DEFAULT_SETTINGS.darkMode
  /\ ambientSound' = DEFAULT_SETTINGS.ambientSound
  /\ ambientSoundType' = DEFAULT_SETTINGS.ambientSoundType
  /\ timeLeft' = DEFAULT_SETTINGS.focusDuration * SecPerMin
  /\ isFocusMode' = FALSE
  /\ intervals' = 0
  /\ timerRef' = FALSE
  /\ loaded' = <<>>
  /\ resetFrom' = <<>>
  /\ UNCHANGED <<now, storage, settingsStore, writable,
                 doneToday, doneMinutes, completed>>

\* an exception in a render or in a state updater unmounts the App; the
\* module state of utils/audio and its pending callbacks stay
Crash(e) == Unmount(e) /\ UNCHANGED audioVars

\* The page is opened: App is mounted.  useState(getSettings()) runs first,
\* then useState(getStats()); the audio module is freshly loaded and the
\* ambient effect runs after the mount.
AppStart ==
  /\ ~open
  /\ IF getSettingsThrows(settingsStore)
       THEN Unmount("SyntaxError") /\ SetAudio(NoAudio)
       ELSE IF StorageFails(FALSE)
       THEN Unmount("StorageError") /\ SetAudio(NoAudio)
       ELSE LET r == getStats(storage, now)
                cfg == getSettings(settingsStore)
            IN /\ stats' = <<r.stats>>
               /\ storage' = r.storage
               /\ loaded' = <<[from |-> storage, at |-> now, ret |-> r.stats]>>
               /\ resetFrom' = <<>>
               /\ focusDuration' = cfg.focusDuration
               /\ breakDuration' = cfg.breakDuration
               /\ darkMode' = cfg.darkMode
               /\ ambientSound' = cfg.ambientSound
               /\ ambientSoundType' = cfg.ambientSoundType
               /\ SetAudio(AmbientEffect(NoAudio, cfg, TRUE))
               /\ timeLeft' = cfg.focusDuration * SecPerMin
               /\ open' = TRUE
               /\ mode' = "focus"
               /\ isActive' = FALSE
               /\ isFocusMode' = FALSE
               /\ intervals' = 0
               /\ timerRef' = FALSE
               /\ err' = "none"
               /\ UNCHANGED <<now, settingsStore, writable,
                              doneToday, doneMinutes, completed>>

\* The page is closed: the React state is gone, the interval is cleared by
\* the cleanup of its effect, the audio module goes with the page,
\* localStorage stays.
AppClose ==
  /\ open
  /\ open' = FALSE
  /\ stats' = <<>>
  /\ mode' = "focus"
  /\ isActive' = FALSE
  /\ focusDuration' = DEFAULT_SETTINGS.focusDuration
  /\ breakDuration' = DEFAULT_SETTINGS.breakDuration
  /\ darkMode' = DEFAULT_SETTINGS.darkMode
  /\ ambientSound' = DEFAULT_SETTINGS.ambientSound
  /\ ambientSoundType' = DEFAULT_SETTINGS.ambientSoundType
  /\ SetAudio(NoAudio)
  /\ timeLeft' = DEFAULT_SETTINGS.focusDuration * SecPerMin
  /\ isFocusMode' = FALSE
  /\ intervals' = 0
  /\ timerRef' = FALSE
  /\ loaded' = <<>>
  /\ resetFrom' = <<>>
  /\ UNCHANGED <<now, storage, settingsStore, writable, err,
                 doneToday, doneMinutes, completed>>

\* The local clock moves forward.
ClockTo(S) ==
  /\ \E t \in S :
       /\ t > now
       /\ now' = t
       /\ doneToday' = IF getDateKey(t) = getDateKey(now) THEN doneToday ELSE 0
       /\ doneMinutes' = IF getDateKey(t) = getDateKey(now) THEN doneMinutes ELSE 0
  /\ loaded' = <<>>
  /\ resetFrom' = <<>>
  /\ UNCHANGED <<ambientSoundType, audioVars>>
  /\ UNCHANGED <<storage, settingsStore, writable, err, open, stats, mode,
                 isActive, focusDuration, breakDuration, darkMode,
                 ambientSound, timeLeft, isFocusMode, intervals, timerRef,
                 completed>>

AdvanceClock == ClockTo(Instants)

\* localStorage stops or starts accepting writes (quota, private mode).
StorageChange ==
  /\ writable' = ~writable
  /\ loaded' = <<>>
  /\ resetFrom' = <<>>
  /\ UNCHANGED <<ambientSoundType, audioVars>>
  /\ UNCHANGED <<now, storage, settingsStore, err, open, stats, mode,
                 isActive, focusDuration, breakDuration, darkMode,
                 ambientSound, timeLeft, isFocusMode, intervals, timerRef,
                 doneToday, doneMinutes, completed>>

\* toggleTimer that also sets timeLeft back to the duration of the mode
ToggleTimer_Restart ==
  /\ open
  /\ IF StorageFails(FALSE)
       THEN Crash("StorageError")
       ELSE /\ isActive' = ~isActive
            /\ timeLeft' = DurationOf(mode, Settings)
            /\ LET tm == IntervalEffect(Timer, ~isActive, TRUE) IN
                 /\ intervals' = tm.intervals
                 /\ timerRef' = tm.timerRef
            /\ storage' = Render(storage, now)
            /\ loaded' = <<>>
            /\ resetFrom' = <<>>
            /\ UNCHANGED <<ambientSoundType, audioVars>>
            /\ UNCHANGED <<now, settingsStore, writable, err, open, stats,
                           mode, focusDuration, breakDuration, darkMode,
                           ambientSound, isFocusMode,
                           doneToday, doneMinutes, completed>>

\* toggleTimer, then the render it causes and the interval effect
ToggleTimer ==
  /\ open
  /\ IF StorageFails(FALSE)
       THEN Crash("StorageError")
       ELSE /\ isActive' = ~isActive
            /\ LET tm == IntervalEffect(Timer, ~isActive, TRUE) IN
                 /\ intervals' = tm.intervals
                 /\ timerRef' = tm.timerRef
            /\ storage' = Render(storage, now)
            /\ loaded' = <<>>
            /\ resetFrom' = <<>>
            /\ UNCHANGED <<ambientSoundType, audioVars>>
            /\ UNCHANGED <<now, settingsStore, writable, err, open, stats,
                           mode, focusDuration, breakDuration, darkMode,
                           ambientSound, timeLeft, isFocusMode,
                           doneToday, doneMinutes, completed>>

\* handleSwitchMode(newMode) from the mode buttons, then the render and
\* the effects
SwitchMode ==
  /\ open
  /\ IF StorageFails(FALSE)
       THEN Crash("StorageError")
       ELSE /\ \E newMode \in {"focus", "break"} :
                 /\ mode' = newMode
                 /\ timeLeft' = SyncTimeLeft(DurationOf(newMode, Settings),
                                   FALSE, newMode, Settings, newMode # mode)
                 /\ LET tm == IntervalEffect(Timer, FALSE,
                                   isActive \/ newMode # mode) IN
                      /\ intervals' = tm.intervals
                      /\ timerRef' = tm.timerRef
            /\ isActive' = FALSE
            /\ storage' = Render(storage, now)
            /\ loaded' = <<>>
            /\ resetFrom' = <<>>
            /\ UNCHANGED <<ambientSoundType, audioVars>>
            /\ UNCHANGED <<now, settingsStore, writable, err, open, stats,
                           focusDuration, breakDuration, darkMode,
                           ambientSound, isFocusMode,
                           doneToday, doneMinutes, completed>>

\* resetTimer enabled only while the timer is idle
ResetTimer_IdleOnly ==
  /\ open
  /\ IF isActive
       THEN UNCHANGED vars
       ELSE IF StorageFails(FALSE)
       THEN Crash("StorageError")
       ELSE /\ isActive' = FALSE
            /\ timeLeft' = DurationOf(mode, Settings)
            /\ LET tm == IntervalEffect(Timer, FALSE, isActive) IN
                 /\ intervals' = tm.intervals
                 /\ timerRef' = tm.timerRef
            /\ storage' = Render(storage, now)
            /\ loaded' = <<>>
            /\ resetFrom' = <<isActive>>
            /\ UNCHANGED <<ambientSoundType, audioVars>>
            /\ UNCHANGED <<now, settingsStore, writable, err, open, stats,
                           mode, focusDuration, breakDuration, darkMode,
                           ambientSound, isFocusMode,
                           doneToday, doneMinutes, completed>>

\* resetTimer: nothing in the distraction-free view (no state is set, no
\* render); otherwise the timer is stopped and timeLeft set back
ResetTimer ==
  /\ open
  /\ IF isFocusMode
       THEN UNCHANGED vars
       ELSE IF StorageFails(FALSE)
       THEN Crash("StorageError")
       ELSE /\ isActive' = FALSE
            /\ timeLeft' = DurationOf(mode, Settings)
            /\ LET tm == IntervalEffect(Timer, FALSE, isActive) IN
                 /\ intervals' = tm.intervals
                 /\ timerRef' = tm.timerRef
            /\ storage' = Render(storage, now)
            /\ loaded' = <<>>
            /\ resetFrom' = <<isActive>>
            /\ UNCHANGED <<ambientSoundType, audioVars>>
            /\ UNCHANGED <<now, settingsStore, writable, err, open, stats,
                           mode, focusDuration, breakDuration, darkMode,
                           ambientSound, isFocusMode,
                           doneToday, doneMinutes, completed>>

\* toggleFocusMode: the distraction-free view is entered or left
ToggleFocusMode ==
  /\ open
  /\ IF StorageFails(FALSE)
       THEN Crash("StorageError")
       ELSE /\ isFocusMode' = ~isFocusMode
            /\ storage' = Render(storage, now)
            /\ loaded' = <<>>
            /\ resetFrom' = <<>>
            /\ UNCHANGED <<ambientSoundType, audioVars>>
            /\ UNCHANGED <<now, settingsStore, writable, err, open, stats,
                           mode, isActive, focusDuration, breakDuration,
                           darkMode, ambientSound, timeLeft, intervals,
                           timerRef, doneToday, doneMinutes, completed>>

\* the interval callback with prev > 1: timeLeft goes down by one second,
\* App renders
Tick ==
  /\ open
  /\ intervals > 0
  /\ timeLeft > 1
  /\ IF StorageFails(FALSE)
       THEN Crash("StorageError")
       ELSE /\ timeLeft' = timeLeft - 1
            /\ storage' = Render(storage, now)
            /\ loaded' = <<>>
            /\ resetFrom' = <<>>
            /\ UNCHANGED <<ambientSoundType, audioVars>>
            /\ UNCHANGED <<now, settingsStore, writable, err, open, stats,
                           mode, isActive, focusDuration, breakDuration,
                           darkMode, ambientSound, isFocusMode, intervals,
                           timerRef, doneToday, doneMinutes, completed>>

\* The countdown runs out: the interval callback runs with prev > 1 while
\* more than one second is left (the seconds in between are not visited),
\* then with prev <= 1: clearInterval, completeSession(), return 0; then the
\* render and the effects.  The value of timeLeft before the effect of
\* lines 429-433 is 0 or the one handleSwitchMode set, depending on the
\* order in which React applies the two updates.
TickComplete ==
  /\ open
  /\ intervals > 0
  /\ IF StorageFails(mode = "focus")
       THEN Crash("StorageError")
       ELSE /\ IF mode = "focus"
                 THEN /\ completed < MaxSessions
                      /\ completed' = completed + 1
                      /\ doneToday' = doneToday + 1
                      /\ doneMinutes' = doneMinutes + focusDuration
                      /\ LET newStats ==
                               RecordSession(stats[1], focusDuration, now) IN
                           /\ stats' = <<newStats>>
                           /\ storage' = Render(saveStats(newStats), now)
                      /\ mode' = "break"
                 ELSE /\ UNCHANGED <<stats, doneToday, doneMinutes, completed>>
                      /\ storage' = Render(storage, now)
                      /\ mode' = "focus"
            /\ isActive' = FALSE
            /\ \E queued \in {0, DurationOf(mode', Settings)} :
                 timeLeft' = SyncTimeLeft(queued, FALSE, mode', Settings, TRUE)
            /\ LET tm == IntervalEffect(clearInterval(Timer), FALSE, TRUE) IN
                 /\ intervals' = tm.intervals
                 /\ timerRef' = tm.timerRef
            /\ loaded' = <<>>
            /\ resetFrom' = <<>>
            /\ UNCHANGED <<ambientSoundType, audioVars>>
            /\ UNCHANGED <<now, settingsStore, writable, err, open,
                           focusDuration, breakDuration, darkMode,
                           ambientSound, isFocusMode>>

\* the interval callback with prev <= 1 alone
LastTick == timeLeft <= 1 /\ TickComplete

\* the "-" button of the daily objective
GoalDec ==
  /\ open
  /\ IF StorageFails(TRUE)
       THEN Crash("StorageError")
       ELSE /\ LET ns == GoalDown(stats[1]) IN
                 /\ stats' = <<ns>>
                 /\ storage' = Render(saveStats(ns), now)
                 /\ LET tm == IntervalEffect(Timer, isActive, TRUE) IN
                      /\ intervals' = tm.intervals
                      /\ timerRef' = tm.timerRef
            /\ loaded' = <<>>
            /\ resetFrom' = <<>>
            /\ UNCHANGED <<ambientSoundType, audioVars>>
            /\ UNCHANGED <<now, settingsStore, writable, err, open, mode,
                           isActive, focusDuration, breakDuration, darkMode,
                           ambientSound, timeLeft, isFocusMode,
                           doneToday, doneMinutes, completed>>

\* the "+" button of the daily objective
GoalInc ==
  /\ open
  /\ stats[1].dailyGoal < MaxGoal
  /\ IF StorageFails(TRUE)
       THEN Crash("StorageError")
       ELSE /\ LET ns == GoalUp(stats[1]) IN
                 /\ stats' = <<ns>>
                 /\ storage' = Render(saveStats(ns), now)
                 /\ LET tm == IntervalEffect(Timer, isActive, TRUE) IN
                      /\ intervals' = tm.intervals
                      /\ timerRef' = tm.timerRef
            /\ loaded' = <<>>
            /\ resetFrom' = <<>>
            /\ UNCHANGED <<ambientSoundType, audioVars>>
            /\ UNCHANGED <<now, settingsStore, writable, err, open, mode,
                           isActive, focusDuration, breakDuration, darkMode,
                           ambientSound, timeLeft, isFocusMode,
                           doneToday, doneMinutes, completed>>

\* setSettings(cfg) from the header buttons or the settings dialog, then
\* the render and the effects.  saveSettings is not called.
SetSettingsWith(cfg, a) ==
  /\ open
  /\ IF StorageFails(FALSE)
       THEN Unmount("StorageError") /\ SetAudio(a)
       ELSE /\ focusDuration' = cfg.focusDuration
            /\ breakDuration' = cfg.breakDuration
            /\ darkMode' = cfg.darkMode
            /\ ambientSound' = cfg.ambientSound
            /\ ambientSoundType' = cfg.ambientSoundType
            /\ SetAudio(AmbientEffect(a, cfg,
                           \/ cfg.ambientSound # ambientSound
                           \/ cfg.ambientSoundType # ambientSoundType))
            /\ timeLeft' = SyncTimeLeft(timeLeft, isActive, mode, cfg,
                              \/ cfg.focusDuration # focusDuration
                              \/ cfg.breakDuration # breakDuration)
            /\ LET tm == IntervalEffect(Timer, isActive, TRUE) IN
                 /\ intervals' = tm.intervals
                 /\ timerRef' = tm.timerRef
            /\ storage' = Render(storage, now)
            /\ loaded' = <<>>
            /\ resetFrom' = <<>>
            /\ UNCHANGED <<now, settingsStore, writable, err, open, stats,
                           mode, isActive, isFocusMode,
                           doneToday, doneMinutes, completed>>

\* setSettings(cfg) from a handler that calls nothing else
SetSettings(cfg) == SetSettingsWith(cfg, Audio)

\* SettingsModal "Apply Changes" with a new focus duration
ApplySettings ==
  \E d \in FocusChoices :
    /\ d # focusDuration
    /\ SetSettings([Settings EXCEPT !.focusDuration = d])

\* SettingsModal "Apply Changes" with short durations
ApplyDurations ==
  \E f \in ShortFocus, b \in ShortBreak :
    /\ <<f, b>> # <<focusDuration, breakDuration>>
    /\ SetSettings([Settings EXCEPT !.focusDuration = f, !.breakDuration = b])

\* the dark-mode button of the header
ToggleDarkMode == SetSettings([Settings EXCEPT !.darkMode = ~darkMode])

\* the ambient-sound button of the header: setSettings, then
\* startAmbientSound or stopAmbientSound called by the handler itself, then
\* the render and the ambient effect, which calls the same function again
ToggleAmbientSound ==
  LET newActive == ~ambientSound
      a == IF newActive THEN startAmbientSound(Audio)
                        ELSE stopAmbientSound(Audio)
      cfg == [Settings EXCEPT !.ambientSound = newActive]
  IN /\ WithinAudioBounds(AmbientEffect(a, cfg, TRUE))
     /\ SetSettingsWith(cfg, a)

\* SettingsModal "Apply Changes" with another ambient sound type
ApplySoundType ==
  \E type \in SoundTypes :
    LET cfg == [Settings EXCEPT !.ambientSoundType = type]
    IN /\ type # ambientSoundType
       /\ WithinAudioBounds(AmbientEffect(Audio, cfg, TRUE))
       /\ SetSettings(cfg)

\* a call of the exported startAmbientSound from the loaded page
StartAmbientSound ==
  /\ open
  /\ WithinAudioBounds(startAmbientSound(Audio))
  /\ SetAudio(startAmbientSound(Audio))
  /\ UNCHANGED appVars

\* a call of the exported stopAmbientSound from the loaded page
StopAmbientSound ==
  /\ open
  /\ WithinAudioBounds(stopAmbientSound(Audio))
  /\ SetAudio(stopAmbientSound(Audio))
  /\ UNCHANGED appVars

\* the oldest pending timeout of stopAmbientSound runs
StopTimeout ==
  /\ timeouts # <<>>
  /\ SetAudio(stopTimeout(Audio))
  /\ UNCHANGED appVars

Next ==
  \/ AppStart
  \/ AppClose
  \/ AdvanceClock
  \/ ToggleTimer
  \/ SwitchMode
  \/ TickComplete
  \/ GoalDec
  \/ GoalInc

Spec == Init /\ [][Next]_vars

(* ----------------------- a run over a stored record --------------------- *)

\* A record an earlier run left in localStorage at instant `last`: a week
\* that began five days before, a goal of 3.
StoredRecord(last, sessions, cur, longest, hist) ==
  [ todaySessions     |-> sessions,
    weekSessions      |-> sessions + 10,
    dailyGoal         |-> 3,
    lastUpdate        |-> last,
    weekStartDate     |-> last - 5 * MsPerDay,
    totalMinutesToday |-> sessions * 25,
    totalMinutesWeek  |-> (sessions + 10) * 25,
    longestStreak     |-> longest,
    currentStreak     |-> cur,
    history           |-> hist ]

\* Records with a history, as the program writes them: longestStreak is at
\* least 12 from the first run or the migration on, and currentStreak
\* reaches it after enough consecutive days.
StoredWithHistory ==
  { StoredRecord(t, n, c, 12, generateMockHistory(t)) :
      t \in ClockHours, n \in {0, 2}, c \in {3, 12} }

\* Records of the version before the history field: history is empty.
\* One has a short streak, one a streak longer than the mock values.
StoredLegacy ==
  { StoredRecord(t, 2, k[1], k[2], <<>>) :
      t \in ClockHours, k \in {<<3, 5>>, <<7, 15>>} }

\* The app is closed on day 0; localStorage holds nothing (first run) or a
\* record written at this instant.
InitStored ==
  /\ \/ /\ storage = <<>>
        /\ now \in ClockHours
     \/ \E r \in StoredWithHistory \cup StoredLegacy :
          /\ storage = <<r>>
          /\ now = r.lastUpdate
  /\ settingsStore = <<>>
  /\ writable = TRUE
  /\ err = "none"
  /\ InitApp
  /\ InitCounts

NextStored ==
  \/ AppStart
  \/ AppClose
  \/ AdvanceClock
  \/ ToggleTimer
  \/ TickComplete
  \/ GoalInc

SpecStored == InitStored /\ [][NextStored]_vars

(* ------------- a run with stored settings and storage faults ----------- *)

\* What localStorage[STATS_KEY] holds when the page is opened: nothing, a
\* text that is not JSON, or a record of the same day.
StoredStatsTexts(t) ==
  {<<>>, <<CorruptText>>, <<StoredRecord(t, 0, 3, 12, generateMockHistory(t))>>}

\* What localStorage[SETTINGS_KEY] holds: nothing, a text that is not JSON,
\* or settings as saveSettings writes them.
StoredSettingsTexts ==
  {<<>>, <<CorruptText>>,
   saveSettings([DEFAULT_SETTINGS EXCEPT !.focusDuration = 50, !.darkMode = TRUE])}

InitFaults ==
  /\ now \in ClockHours
  /\ storage \in StoredStatsTexts(now)
  /\ settingsStore \in StoredSettingsTexts
  /\ writable \in BOOLEAN
  /\ err = "none"
  /\ InitApp
  /\ InitCounts

NextFaults ==
  \/ AppStart
  \/ AppClose
  \/ StorageChange
  \/ ToggleTimer
  \/ TickComplete
  \/ GoalDec
  \/ GoalInc
  \/ ApplySettings
  \/ ToggleDarkMode

SpecFaults == InitFaults /\ [][NextFaults]_vars

(* ------------------ a run of the timer, second by second ---------------- *)

\* First run at 09:00 of day 0; the clock is not advanced in these runs.
InitTimer == Init /\ now = 9

NextTimer ==
  \/ AppStart
  \/ ToggleTimer
  \/ SwitchMode
  \/ Tick
  \/ LastTick
  \/ ResetTimer
  \/ ToggleFocusMode
  \/ ApplyDurations

SpecTimer == InitTimer /\ [][NextTimer]_vars

(* ------------- the interval under changes of completeSession ----------- *)

\* The timer second by second with the default durations, and the handlers
\* that give completeSession a new identity while the interval is armed:
\* the goal buttons (stats) and the dark-mode button (settings).
NextIntervals ==
  \/ AppStart
  \/ ToggleTimer
  \/ SwitchMode
  \/ ResetTimer
  \/ Tick
  \/ LastTick
  \/ GoalDec
  \/ GoalInc
  \/ ToggleDarkMode

SpecIntervals == InitTimer /\ [][NextIntervals]_vars

\* The first run after which the clock jumps to the day on which the week
\* of the defaults ends: DEFAULT_STATS starts the week WeekStartBack days
\* before the first run, so the weekly reset is due WeekDays - WeekStartBack
\* days later, at the hour of the first run.
WeekEndInstants ==
  {MsPerDay * (WeekDays - WeekStartBack) + h : h \in ClockHours}

AdvanceToWeekEnd == ClockTo(WeekEndInstants)

NextWeek ==
  \/ AppStart
  \/ AppClose
  \/ AdvanceToWeekEnd
  \/ ToggleTimer
  \/ TickComplete

SpecWeek == Init /\ [][NextWeek]_vars

\* The ambient sound: the calls of utils/audio the App makes, the exported
\* functions called in any order, and the delayed callbacks.
NextAudio ==
  \/ AppStart
  \/ ToggleAmbientSound
  \/ ApplySoundType
  \/ StartAmbientSound
  \/ StopAmbientSound
  \/ StopTimeout

SpecAudio == InitTimer /\ [][NextAudio]_vars

(* ------------------------------- claims -------------------------------- *)

\* The getStats call of the mount, in the state right after AppStart.
LoadedFrom == loaded[1].from[1]

LoadedRet == loaded[1].ret

LoadedAt == loaded[1].at

LoadedStored == loaded # <<>> /\ loaded[1].from # <<>>

\* C1: after a change of local day, a focus session completed on the new
\* day is not added on top of the previous day's count: completing a
\* session when the in-memory record was last updated on another local day
\* leaves todaySessions = 1 and totalMinutesToday = the minutes of that one
\* session, in the React state and in localStorage.
C1_CountRestartsOnNewDay ==
  [][ (TickComplete /\ mode = "focus"
         /\ getDateKey(stats[1].lastUpdate) # getDateKey(now))
      => /\ stats'[1].todaySessions = 1
         /\ stats'[1].totalMinutesToday = focusDuration
         /\ storage'[1].todaySessions = 1 ]_vars

\* C2: while the record's counts are those of the current local day,
\* todaySessions is the number of focus sessions completed this day and
\* totalMinutesToday the sum of the minutes they recorded.
C2_TodayCountsCompletions ==
  (stats # <<>> /\ getDateKey(stats[1].lastUpdate) = getDateKey(now))
    => /\ stats[1].todaySessions = doneToday
       /\ stats[1].totalMinutesToday = doneMinutes

\* C3: currentStreak <= longestStreak in the in-memory record and in the
\* persisted record, in every reachable state.
C3_StreakWithinLongest ==
  /\ storage # <<>> => storage[1].currentStreak <= storage[1].longestStreak
  /\ stats # <<>> => stats[1].currentStreak <= stats[1].longestStreak
  /\ loaded # <<>> => LoadedRet.currentStreak <= LoadedRet.longestStreak

\* C3 witness: a rollover has raised both streaks past the stored maximum.
C3_Witness ==
  /\ storage # <<>>
  /\ storage[1].currentStreak = MockLongest + 1
  /\ storage[1].longestStreak = MockLongest + 1

\* C4: history has no entry under the date key of the current local day,
\* in the persisted record, in the record getStats returned and in the
\* in-memory record.
C4_NoHistoryForToday ==
  /\ storage # <<>> => getDateKey(now) \notin DOMAIN storage[1].history
  /\ loaded # <<>> => getDateKey(LoadedAt) \notin DOMAIN LoadedRet.history
  /\ stats # <<>> => getDateKey(now) \notin DOMAIN stats[1].history

\* C4 witness: yesterday's four sessions are archived, today's one session
\* is held in todaySessions.
C4_Witness ==
  /\ storage # <<>>
  /\ getDateKey(now) - 1 \in DOMAIN storage[1].history
  /\ storage[1].history[getDateKey(now) - 1] = sessionsToday + 1
  /\ storage[1].todaySessions = 1

\* A second getStats call at t, after a call at t0 returned c, with no day
\* boundary and no week boundary of the returned record in between.
SameDayAndWeek(c, t0, t) ==
  /\ t >= t0
  /\ getDateKey(t) = getDateKey(t0)
  /\ (t - c.stats.weekStartDate) \div MsPerDay < WeekDays

\* C5: after a getStats call (the one of the mount, and the one any render
\* would make in the current state), a second call later the same local
\* day, with no week boundary passed, returns the same record and leaves
\* localStorage as the first call left it.
C5_LoadIdempotent ==
  /\ loaded # <<>> =>
       \A t \in Instants :
         SameDayAndWeek([stats |-> LoadedRet], now, t)
           => getStats(storage, t) = [stats |-> LoadedRet, storage |-> storage]
  /\ LET first == getStats(storage, now) IN
       \A t \in Instants :
         SameDayAndWeek(first, now, t) => getStats(first.storage, t) = first

\* C5 witness: the first call rolled the day over and raised the streak,
\* and a later instant of the same day exists for the second call.
C5_Witness ==
  /\ LoadedStored
  /\ DOMAIN LoadedFrom.history # {}
  /\ LoadedRet.currentStreak = LoadedFrom.currentStreak + 1
  /\ LoadedRet.todaySessions = 0
  /\ LoadedFrom.todaySessions = 2
  /\ \E t \in Instants : t > now /\ getDateKey(t) = getDateKey(now)

\* C6: a load on day D+1 of a record with a history, last updated on day D
\* with todaySessions = 0, returns currentStreak = 0.
C6_IdleDayResetsStreak ==
  ( /\ LoadedStored
    /\ DOMAIN LoadedFrom.history # {}
    /\ getDateKey(LoadedAt) = getDateKey(LoadedFrom.lastUpdate) + 1
    /\ LoadedFrom.todaySessions = 0 )
  => LoadedRet.currentStreak = 0

\* C7: a load at any instant of day D+1 of a record with a history, last
\* updated at any instant of day D with todaySessions >= 1, returns
\* currentStreak one higher than stored.
C7_NextDayIncrementsStreak ==
  ( /\ LoadedStored
    /\ DOMAIN LoadedFrom.history # {}
    /\ getDateKey(LoadedAt) = getDateKey(LoadedFrom.lastUpdate) + 1
    /\ LoadedFrom.todaySessions >= 1 )
  => LoadedRet.currentStreak = LoadedFrom.currentStreak + 1

\* C8: a getStats call on day D+k, k >= 2, of a record last updated on day
\* D returns currentStreak = 0 and stores it, whatever todaySessions was.
C8_MultiDayGapResets ==
  /\ ( LoadedStored
       /\ getDateKey(LoadedAt) >= getDateKey(LoadedFrom.lastUpdate) + 2 )
     => LoadedRet.currentStreak = 0
  /\ ( storage # <<>>
       /\ getDateKey(now) >= getDateKey(storage[1].lastUpdate) + 2 )
     => /\ getStats(storage, now).stats.currentStreak = 0
        /\ getStats(storage, now).storage[1].currentStreak = 0

\* C8 witness: a streak of 12 with two sessions on day D, loaded on day D+2.
C8_Witness ==
  /\ LoadedStored
  /\ getDateKey(LoadedAt) = getDateKey(LoadedFrom.lastUpdate) + 2
  /\ LoadedFrom.todaySessions = 2
  /\ LoadedFrom.currentStreak = MockLongest
  /\ LoadedRet.currentStreak = 0

\* C9: the record {todaySessions 2, totalMinutesToday 50, lastUpdate day 0
\* 10:00, currentStreak 3, longestStreak 5, history empty} loaded on day 1
\* at 09:00 gives history[day 0] = 2, currentStreak 4, longestStreak 5,
\* todaySessions 0 and totalMinutesToday 0.
C9_ScenarioNextDayLoad ==
  ( /\ LoadedStored
    /\ LoadedFrom = StoredRecord(10, 2, 3, 5, <<>>)
    /\ LoadedAt = MsPerDay + 9 )
  => /\ 0 \in DOMAIN LoadedRet.history
     /\ LoadedRet.history[0] = 2
     /\ LoadedRet.currentStreak = 4
     /\ LoadedRet.longestStreak = 5
     /\ LoadedRet.todaySessions = 0
     /\ LoadedRet.totalMinutesToday = 0

\* C10: longestStreak of the persisted record never decreases.
C10_LongestNeverDecreases ==
  [][ (storage # <<>> /\ storage' # <<>>)
      => storage'[1].longestStreak >= storage[1].longestStreak ]_vars

\* C11: a getStats load of a stored record resets the week exactly when
\* floor((now - weekStartDate) / 1 day) >= 7: then weekSessions and
\* totalMinutesWeek are 0 and weekStartDate is now in the returned record;
\* otherwise the three fields are those of the stored record.  This holds
\* with and without a daily rollover in the same load.
C11_WeeklyResetIffSevenDays ==
  LoadedStored =>
    IF (LoadedAt - LoadedFrom.weekStartDate) \div MsPerDay >= 7
      THEN /\ LoadedRet.weekSessions = 0
           /\ LoadedRet.totalMinutesWeek = 0
           /\ LoadedRet.weekStartDate = LoadedAt
      ELSE /\ LoadedRet.weekSessions = LoadedFrom.weekSessions
           /\ LoadedRet.totalMinutesWeek = LoadedFrom.totalMinutesWeek
           /\ LoadedRet.weekStartDate = LoadedFrom.weekStartDate

\* C11 witness: a load exactly seven days after weekStartDate, on the day
\* of lastUpdate (no daily rollover), zeroes a non-empty week.
C11_Witness ==
  /\ LoadedStored
  /\ LoadedAt - LoadedFrom.weekStartDate = 7 * MsPerDay
  /\ getDateKey(LoadedAt) = getDateKey(LoadedFrom.lastUpdate)
  /\ LoadedFrom.weekSessions > 0
  /\ LoadedRet.weekSessions = 0
  /\ LoadedRet.weekStartDate = LoadedAt

\* C12: with no stored record, getStats returns and persists a default
\* record with todaySessions, weekSessions, totalMinutesToday,
\* totalMinutesWeek, currentStreak and longestStreak all 0, dailyGoal 4 and
\* an empty history.
C12_FirstRunDefaultsAreZero ==
  (loaded # <<>> /\ loaded[1].from = <<>>)
    => /\ LoadedRet.todaySessions = 0
       /\ LoadedRet.weekSessions = 0
       /\ LoadedRet.totalMinutesToday = 0
       /\ LoadedRet.totalMinutesWeek = 0
       /\ LoadedRet.currentStreak = 0
       /\ LoadedRet.longestStreak = 0
       /\ LoadedRet.dailyGoal = 4
       /\ DOMAIN LoadedRet.history = {}
       /\ storage = <<LoadedRet>>

\* C13: when getStats loads a stored record whose history is empty, the
\* record after the migration and before any rollover has currentStreak
\* and longestStreak each at least the stored value.
C13_MigrationKeepsStreaks ==
  (LoadedStored /\ DOMAIN LoadedFrom.history = {})
    => LET m == LoadStored(loaded[1].from, LoadedAt).stats
       IN /\ m.currentStreak >= LoadedFrom.currentStreak
          /\ m.longestStreak >= LoadedFrom.longestStreak

\* The stored text under a key is present and is not JSON.
Corrupted(store) == store # <<>> /\ ~Parsable(store[1])

\* C14: when the stored text of the stats record or of the settings record
\* is corrupted, opening the app (getSettings, getStats) raises no error
\* and the record whose text is corrupted is loaded as the defaults.
C14_CorruptLoadsDefaults ==
  [][ (AppStart /\ writable /\ (Corrupted(storage) \/ Corrupted(settingsStore)))
      => /\ err' = "none"
         /\ open'
         /\ Corrupted(storage) => stats' = <<DEFAULT_STATS(now)>>
         /\ Corrupted(settingsStore) => Settings' = DEFAULT_SETTINGS ]_vars

\* C15: while localStorage refuses writes, no failure of saveStats leaves
\* the operation that called it: opening the app (getStats), completing a
\* focus session and editing the goal all complete, with no error, and the
\* in-memory record holds the loaded or updated values.
C15_WriteFailureIsSilent ==
  [][ ~writable =>
        /\ (AppStart /\ ~getSettingsThrows(settingsStore))
             => /\ err' = "none"
                /\ stats' = <<getStats(storage, now).stats>>
        /\ (TickComplete /\ mode = "focus")
             => /\ open'
                /\ stats' = <<RecordSession(stats[1], focusDuration, now)>>
        /\ GoalInc => (open' /\ stats' = <<GoalUp(stats[1])>>)
        /\ GoalDec => (open' /\ stats' = <<GoalDown(stats[1])>>) ]_vars

\* C16: after every mutation of the settings (dark-mode toggle,
\* ambient-sound toggle, applying the settings dialog) the persisted
\* settings are the in-memory settings, so that a restart reloads them, and
\* after every mutation of the stats record (session completion, goal
\* increment and decrement) the persisted record is the in-memory record.
C16_MutationsArePersisted ==
  [][ writable =>
        /\ (ToggleDarkMode \/ ToggleAmbientSound \/ ApplySettings)
             => getSettings(settingsStore') = Settings'
        /\ ((TickComplete /\ mode = "focus") \/ GoalInc \/ GoalDec)
             => storage' = stats' ]_vars

\* C17: while the timer is Running each tick decreases timeLeft by exactly
\* 1; the tick that would bring it to 0 completes the session exactly once
\* (one session recorded in focus mode, no interval left armed) and leaves
\* the timer Idle with the mode flipped and timeLeft at the configured
\* duration of the new mode in seconds; timeLeft is never left at 0 and is
\* never negative.
C17_TickCountsDownAndCompletes ==
  [][ /\ (Tick /\ isActive)
           => (timeLeft' = timeLeft - 1 /\ isActive' /\ mode' = mode)
      /\ (LastTick /\ isActive)
           => /\ ~isActive'
              /\ intervals' = 0
              /\ mode' = (IF mode = "focus" THEN "break" ELSE "focus")
              /\ timeLeft' = DurationOf(mode', Settings')
              /\ mode = "focus"
                   => stats'[1].todaySessions = stats[1].todaySessions + 1
      /\ timeLeft' > 0 ]_vars

\* C17 witness: a focus countdown has completed; the timer is idle in break
\* mode with the one minute of the configured break on the clock.
C17_Witness ==
  /\ open
  /\ completed = 1
  /\ mode = "break"
  /\ ~isActive
  /\ breakDuration = 1
  /\ timeLeft = SecPerMin

\* the session and minute counters of a statistics record
Counters(s) ==
  <<s.todaySessions, s.weekSessions, s.totalMinutesToday, s.totalMinutesWeek>>

\* C18: the session and minute counters of the statistics record (in
\* memory and persisted) change only when a tick reaches zero in focus
\* mode, then by exactly one session of the configured focus duration, and
\* the mode becomes break; completing a break, switchMode, reset, toggle
\* and duration changes leave the four counters unchanged.
C18_OnlyFocusCompletionCounts ==
  [][ (open /\ open') =>
        IF LastTick /\ mode = "focus"
          THEN /\ Counters(stats'[1]) =
                    <<stats[1].todaySessions + 1,
                      stats[1].weekSessions + 1,
                      stats[1].totalMinutesToday + focusDuration,
                      stats[1].totalMinutesWeek + focusDuration>>
               /\ Counters(storage'[1]) = Counters(stats'[1])
               /\ mode' = "break"
          ELSE /\ Counters(stats'[1]) = Counters(stats[1])
               /\ Counters(storage'[1]) = Counters(storage[1]) ]_vars

\* C18 witness: one focus session of one minute is recorded on top of the
\* counters of the first run, and the break that followed has completed.
C18_Witness ==
  /\ open
  /\ completed = 1
  /\ mode = "focus"
  /\ stats[1].todaySessions = sessionsToday + 1
  /\ stats[1].totalMinutesToday = sessionsToday * 25 + 1
  /\ stats[1].weekSessions = totalWeekSessions + 1
  /\ stats[1].totalMinutesWeek = totalWeekSessions * 25 + 1

\* C19: switchMode(target) from any timer state leaves the timer Idle with
\* mode = target and timeLeft = the configured duration of target, with no
\* interval armed; a tick fires only while the timer is Running.
C19_SwitchModeStopsAndResets ==
  [][ /\ SwitchMode
           => /\ ~isActive'
              /\ timeLeft' = DurationOf(mode', Settings)
              /\ intervals' = 0
      /\ (Tick \/ LastTick) => isActive
      /\ ~isActive' => intervals' = 0 ]_vars

\* C19 witness: break mode reached with no session completed, that is by
\* switchMode, after the break duration was set to one minute.
C19_Witness ==
  /\ open
  /\ completed = 0
  /\ mode = "break"
  /\ ~isActive
  /\ intervals = 0
  /\ breakDuration = 1
  /\ timeLeft = SecPerMin

\* C20 as stated: reset while Idle sets timeLeft to the configured duration
\* of the current mode and keeps the mode; reset while Running is a no-op,
\* the timer stays Running and timeLeft is unchanged.
C20_ResetIsNoOpWhileRunning ==
  [][ ResetTimer =>
        IF isActive
          THEN isActive' /\ timeLeft' = timeLeft /\ mode' = mode
          ELSE /\ ~isActive'
               /\ timeLeft' = DurationOf(mode, Settings)
               /\ mode' = mode ]_vars

\* C20 amended: outside the distraction-free view reset stops the timer,
\* Running or Idle, sets timeLeft to the configured duration of the current
\* mode and keeps the mode; in the distraction-free view reset is a no-op.
C20_ResetStopsAndRestores ==
  [][ ResetTimer =>
        IF isFocusMode
          THEN UNCHANGED <<isActive, timeLeft, mode, intervals>>
          ELSE /\ ~isActive'
               /\ intervals' = 0
               /\ timeLeft' = DurationOf(mode, Settings)
               /\ mode' = mode ]_vars

\* C20 witness: reset was pressed while the timer was Running in break
\* mode; the timer is idle with the full break duration.
C20_Witness ==
  /\ resetFrom = <<TRUE>>
  /\ ~isActive
  /\ mode = "break"
  /\ timeLeft = DurationOf("break", Settings)
  /\ intervals = 0

\* C21: applying new focus or break durations while the timer is Idle sets
\* timeLeft at once to the new duration of the current mode; while Running
\* it leaves timeLeft and the Running state unchanged, and the durations in
\* force are the ones used when timeLeft is next reset by a mode switch, a
\* completion or a reset.
C21_DurationChangeIdleOrDeferred ==
  [][ /\ ApplyDurations
           => IF isActive
                THEN timeLeft' = timeLeft /\ isActive'
                ELSE timeLeft' = DurationOf(mode, Settings') /\ ~isActive'
      /\ (SwitchMode \/ LastTick) => timeLeft' = DurationOf(mode', Settings)
      /\ (ResetTimer /\ ~isFocusMode)
           => timeLeft' = DurationOf(mode, Settings) ]_vars

\* C21 witness: the focus duration was set to one minute while the first
\* countdown was running; more than that minute is still on the clock.
C21_Witness ==
  /\ open
  /\ isActive
  /\ mode = "focus"
  /\ focusDuration = 1
  /\ timeLeft > SecPerMin
  /\ timeLeft < DefaultFocusDuration * SecPerMin

\* C22: under every interleaving of start, pause, switchMode, reset,
\* completion, ticks and re-creations of completeSession (goal and settings
\* changes while Running) at most one interval is armed, none is armed
\* while the timer is Idle, and while the timer stays Running in a mode
\* timeLeft changes only by a tick, by exactly one second.
C22_AtMostOneInterval ==
  [][ /\ intervals' <= 1
      /\ ~isActive' => intervals' = 0
      /\ (isActive /\ isActive' /\ mode' = mode /\ timeLeft' # timeLeft)
           => (Tick /\ timeLeft' = timeLeft - 1) ]_vars

\* C22 witness: the goal was lowered and the dark mode switched on in a run
\* in which two ticks have fired; the timer is Running on one interval.
C22_Witness ==
  /\ open
  /\ isActive
  /\ intervals = 1
  /\ timerRef
  /\ darkMode
  /\ stats[1].dailyGoal = 3
  /\ timeLeft = DefaultFocusDuration * SecPerMin - 2

\* C23: dailyGoal is an integer >= 1, in the in-memory record and in the
\* persisted one, in every state reached from a first run by goal
\* increments and decrements, loads and session completions; a decrement at
\* dailyGoal = 1 leaves it at 1.
C23_GoalAtLeastOne ==
  [][ /\ stats' # <<>>
           => (stats'[1].dailyGoal \in Nat /\ stats'[1].dailyGoal >= 1)
      /\ storage' # <<>>
           => (storage'[1].dailyGoal \in Nat /\ storage'[1].dailyGoal >= 1)
      /\ (GoalDec /\ stats[1].dailyGoal = 1)
           => (stats'[1].dailyGoal = 1 /\ storage'[1].dailyGoal = 1) ]_vars

\* C23 witness: the goal was taken down to 1, the floor, after a focus
\* session was completed, and the app was reopened on a later day.
C23_Witness ==
  /\ loaded # <<>>
  /\ LoadedRet.dailyGoal = 1
  /\ storage[1].dailyGoal = 1
  /\ completed = 1
  /\ getDateKey(now) > 0

\* The record getStats holds after reading and migrating the stored text
\* of the mount's load, before any rollover.
LoadedPre == LoadStored(loaded[1].from, LoadedAt).stats

\* The mount's load found a stored record of another local day.
LoadedRolledOver ==
  LoadedStored /\ getDateKey(LoadedAt) # getDateKey(LoadedPre.lastUpdate)

\* C24: in a daily rollover, with gap = ceil(|now - lastUpdate| / 24h):
\* gap <= 1 and todaySessions > 0 raise currentStreak by 1, gap <= 1 and
\* todaySessions = 0 leave it unchanged, gap > 1 sets it to 0; longestStreak
\* becomes the maximum of its old value and the new currentStreak.
C24_StreakByGap ==
  LoadedRolledOver =>
    LET gap == CeilDiv(Abs(LoadedAt - LoadedPre.lastUpdate), MsPerDay)
    IN /\ (gap <= 1 /\ LoadedPre.todaySessions > 0)
            => LoadedRet.currentStreak = LoadedPre.currentStreak + 1
       /\ (gap <= 1 /\ LoadedPre.todaySessions = 0)
            => LoadedRet.currentStreak = LoadedPre.currentStreak
       /\ gap > 1 => LoadedRet.currentStreak = 0
       /\ LoadedRet.longestStreak =
            Max(LoadedPre.longestStreak, LoadedRet.currentStreak)

\* C24 witness: a day without sessions, loaded 23 hours later on the next
\* local day, keeps its streak of 3.
C24_Witness ==
  /\ LoadedRolledOver
  /\ LoadedAt - LoadedPre.lastUpdate = MsPerDay - 1
  /\ LoadedPre.todaySessions = 0
  /\ LoadedPre.currentStreak = 3
  /\ LoadedRet.currentStreak = 3

\* C25: a daily rollover sets history[dateKey(lastUpdate)] to the
\* todaySessions of before the rollover, over any value already stored
\* under that key, and leaves every other history entry as it was.
C25_RolloverArchivesDay ==
  LoadedRolledOver =>
    LET k == getDateKey(LoadedPre.lastUpdate)
    IN /\ DOMAIN LoadedRet.history = DOMAIN LoadedPre.history \cup {k}
       /\ LoadedRet.history[k] = LoadedPre.todaySessions
       /\ \A x \in DOMAIN LoadedPre.history \ {k} :
            LoadedRet.history[x] = LoadedPre.history[x]

\* C25 witness: the key of lastUpdate already held another count, which
\* the rollover has replaced.
C25_Witness ==
  /\ LoadedRolledOver
  /\ getDateKey(LoadedPre.lastUpdate) \in DOMAIN LoadedPre.history
  /\ LoadedPre.history[getDateKey(LoadedPre.lastUpdate)] # LoadedPre.todaySessions
  /\ LoadedRet.history[getDateKey(LoadedPre.lastUpdate)] = LoadedPre.todaySessions

\* C26: a getStats load on the local day of lastUpdate performs no daily
\* rollover: for a stored record with a non-empty history, history,
\* currentStreak, longestStreak, todaySessions, totalMinutesToday and
\* lastUpdate are returned as stored.
C26_SameDayLoadKeepsDay ==
  ( /\ LoadedStored
    /\ DOMAIN LoadedFrom.history # {}
    /\ getDateKey(LoadedAt) = getDateKey(LoadedFrom.lastUpdate) )
  => /\ LoadedRet.history = LoadedFrom.history
     /\ LoadedRet.currentStreak = LoadedFrom.currentStreak
     /\ LoadedRet.longestStreak = LoadedFrom.longestStreak
     /\ LoadedRet.todaySessions = LoadedFrom.todaySessions
     /\ LoadedRet.totalMinutesToday = LoadedFrom.totalMinutesToday
     /\ LoadedRet.lastUpdate = LoadedFrom.lastUpdate

\* C26 witness: a session completed in this run, after a rollover on day
\* 1, is there again when the app is reopened an hour later.
C26_Witness ==
  /\ LoadedStored
  /\ getDateKey(LoadedAt) = 1
  /\ LoadedAt > LoadedFrom.lastUpdate
  /\ getDateKey(LoadedFrom.lastUpdate) = 1
  /\ completed = 1
  /\ LoadedFrom.todaySessions = 1
  /\ LoadedRet.todaySessions = 1
  /\ LoadedRet.totalMinutesToday = DefaultFocusDuration

\* C27: toggle turns Running into Idle and Idle into Running and changes
\* neither the mode nor timeLeft, so that a pause followed by a resume,
\* with no tick and no settings change in between, continues the countdown
\* from the same value; the interval is armed exactly while Running.
C27_ToggleKeepsCountdown ==
  [][ ToggleTimer
        => /\ isActive' = ~isActive
           /\ mode' = mode
           /\ timeLeft' = timeLeft
           /\ intervals' = (IF isActive' THEN 1 ELSE 0) ]_vars

\* C27 witness: the first countdown is paused with two seconds elapsed.
C27_Witness ==
  /\ open
  /\ ~isActive
  /\ intervals = 0
  /\ mode = "focus"
  /\ focusDuration = DefaultFocusDuration
  /\ timeLeft = DefaultFocusDuration * SecPerMin - 2

\* C29: in every state reachable from a first run the weekly counters
\* cover the daily ones, weekSessions >= todaySessions and
\* totalMinutesWeek >= totalMinutesToday, in the stored record and in the
\* record a load returns, also right after a weekly reset on a load that
\* performs no daily rollover.
C29_WeekCoversToday ==
  /\ storage # <<>> /\ Parsable(storage[1])
       => /\ storage[1].weekSessions >= storage[1].todaySessions
          /\ storage[1].totalMinutesWeek >= storage[1].totalMinutesToday
  /\ loaded # <<>>
       => /\ LoadedRet.weekSessions >= LoadedRet.todaySessions
          /\ LoadedRet.totalMinutesWeek >= LoadedRet.totalMinutesToday

\* C28: whatever the order of the calls of startAmbientSound and
\* stopAmbientSound and of the delayed callbacks they schedule, once no
\* callback is pending at most one source plays; after a last call of
\* startAmbientSound the source of that call plays and is the active one;
\* after a last call of stopAmbientSound no source plays and activeSource
\* is null.  A callback stops and clears no source that was started after
\* the callback was scheduled.
C28_AmbientSourceSettles ==
  [][ /\ timeouts' = <<>>
        => /\ Cardinality(playing') <= 1
           /\ lastCall' = "start"
                => playing' = {created'} /\ activeSource' = created'
           /\ lastCall' = "stop"
                => playing' = {} /\ activeSource' = 0
      /\ StopTimeout
        => /\ \A s \in playing \ playing' : s <= Head(timeouts).created
           /\ activeSource' # activeSource
                => activeSource <= Head(timeouts).created ]_vars

\* C28 witness: the header button turned the sound on, which started
\* source 1 in the handler and source 2 in the effect; the callback for
\* source 1 has run since, and source 2 plays and is the active one.
C28_Witness ==
  /\ open
  /\ ambientSound
  /\ created = 2
  /\ timeouts = <<>>
  /\ lastCall = "start"
  /\ playing = {2}
  /\ activeSource = 2

====
